---- MODULE Spec2Model ----
(***************************************************************************)
(* Model of the MP model-portfolio performance and attribution pipeline:   *)
(*   - load_rebalance_weights   (Weight Table Normalizer)                  *)
(*   - simulate_portfolio       (dynamic simulator)                        *)
(*   - simulate_static_portfolio(static, buy-and-hold simulator)           *)
(*   - main                     (attribution ledger)                       *)
(* Floating-point numbers are modelled as exact rationals extended with    *)
(* NaN, +inf and -inf, with the IEEE-754 rules numpy/pandas follow for     *)
(* them; rounding error is not modelled.                                   *)
(***************************************************************************)
EXTENDS Integers, Sequences, FiniteSets, TLC

(***************************************************************************)
(* Numbers: <<n, d>> with d > 0 in lowest terms is the rational n/d;       *)
(* <<0, 0>> is NaN, <<1, 0>> is +inf and <<-1, 0>> is -inf.                *)
(***************************************************************************)
Abs(i) == IF i < 0 THEN -i ELSE i

Sign(i) == IF i < 0 THEN -1 ELSE IF i > 0 THEN 1 ELSE 0

RECURSIVE GCD(_, _)
GCD(a, b) == IF b = 0 THEN a ELSE GCD(b, a % b)

Norm(n, d) ==
    IF d = 0 THEN <<Sign(n), 0>>
    ELSE LET g == GCD(Abs(n), Abs(d))
         IN  <<(Sign(d) * Sign(n)) * (Abs(n) \div g), Abs(d) \div g>>

NaN == <<0, 0>>

Inf == <<1, 0>>

Zero == <<0, 1>>

R(i) == <<i, 1>>

Frac(n, d) == Norm(n, d)

IsNaN(x) == x = NaN

IsFinite(x) == x[2] # 0

Neg(x) == <<-x[1], x[2]>>

Mul(x, y) == Norm(x[1] * y[1], x[2] * y[2])

Add(x, y) ==
    IF x[2] = 0 /\ y[2] = 0
    THEN (IF x = y THEN x ELSE NaN)
    ELSE Norm(x[1] * y[2] + y[1] * x[2], x[2] * y[2])

Sub(x, y) == Add(x, Neg(y))

Recip(x) == IF x[1] < 0 THEN <<-x[2], -x[1]>> ELSE <<x[2], x[1]>>

Div(x, y) == Mul(x, Recip(y))

Less(x, y) == IsFinite(x) /\ IsFinite(y) /\ x[1] * y[2] < y[1] * x[2]

\* pandas Series.sum(): skipna=True, so NaN terms are left out; the sum of
\* nothing is 0.0.
RECURSIVE SumSkipNa(_, _)
SumSkipNa(f, S) ==
    IF S = {} THEN Zero
    ELSE LET k == CHOOSE k \in S : TRUE
             rest == SumSkipNa(f, S \ {k})
         IN  IF IsNaN(f[k]) THEN rest ELSE Add(f[k], rest)

\* A plain (NaN-propagating) sum.
RECURSIVE SumAll(_, _)
SumAll(f, S) ==
    IF S = {} THEN Zero
    ELSE LET k == CHOOSE k \in S : TRUE
         IN  Add(f[k], SumAll(f, S \ {k}))

\* Python truthiness of a price: `price and not np.isnan(price)`.
ValidPrice(price) == price # Zero /\ ~IsNaN(price)

(***************************************************************************)
(* Bounds and input domains of the simulator runs.                         *)
(***************************************************************************)
MaxDate == 3

MaxSnap == 2

Dates == 1..MaxDate

\* weights.columns: the ticker columns and the cash bucket.
portfolio_cols == {"AAA", "BBB"}

Cols == portfolio_cols \cup {"CASH"}

WRow(a, b, c) == [k \in Cols |->
    IF k = "AAA" THEN Frac(a, 5) ELSE IF k = "BBB" THEN Frac(b, 5) ELSE Frac(c, 5)]

\* Rows of a WeightMatrix: non-negative and summing to 1.
WeightRows == {WRow(3, 2, 0), WRow(0, 5, 0), WRow(2, 0, 3)}

\* The prices a ticker can have on a row: missing, zero or valid.
PriceVals(t) == IF t = "AAA" THEN {NaN, Zero, R(10), R(20)} ELSE {NaN, Zero, R(20)}

RECURSIVE SortedSeq(_)
SortedSeq(S) ==
    IF S = {} THEN <<>>
    ELSE LET m == CHOOSE m \in S : \A x \in S : m <= x
         IN  <<m>> \o SortedSeq(S \ {m})

\* Every WeightMatrix with at most MaxSnap snapshots: strictly ascending dates.
WeightMatrices ==
    UNION {{[i \in 1..Cardinality(D) |-> [date |-> SortedSeq(D)[i], w |-> ws[i]]] :
                ws \in [1..Cardinality(D) -> WeightRows]} :
           D \in {D \in SUBSET Dates : Cardinality(D) <= MaxSnap}}

VARIABLES
    weights,          \* the WeightMatrix: sequence of [date, w], ascending
    price_cols,       \* price_history.columns (those among portfolio_cols)
    price_dates,      \* price_history.index
    pc,               \* "start", "loop" or "done"
    row,              \* number of rows of `prices` iterated so far
    px,               \* the price row last read
    flat,             \* whether every row read so far carries the same prices
    d_status,         \* simulate_portfolio: "init", "running", "done" or an error
    units, cash_balance, rebalance_idx,
    record,           \* the entry last appended to `records`, with its index value
    first_value,      \* records[0]'s PortfolioValue (PortfolioValue.iloc[0])
    weights_today,    \* the row last appended to `weight_records`
    applied,          \* rebalance events applied: <<snapshot date, row date>>
    s_status,         \* simulate_static_portfolio: likewise
    s_units, s_cash_balance, s_record, s_first_value, s_weights_today

simVars == <<weights, price_cols, price_dates, pc, row, px, flat, d_status, units,
             cash_balance, rebalance_idx, record, first_value, weights_today,
             applied, s_status, s_units, s_cash_balance, s_record, s_first_value,
             s_weights_today>>

VARIABLES
    has_ticker_col,   \* whether the Excel sheet has a "Ticker" column
    value_cols,       \* the sheet's other column headers (rebalance labels)
    raw,              \* the sheet's rows: [Ticker, Weight (one cell per value column)]
    n_pc,             \* load_rebalance_weights: "start" or "done"
    n_status,         \* "init", "ok" or an error
    n_weights,        \* the WeightMatrix returned: sequence of [date, w]
    active_tickers    \* the ticker columns returned

normVars == <<has_ticker_col, value_cols, raw, n_pc, n_status, n_weights,
              active_tickers>>

VARIABLES
    a_price_cols,     \* main: price_history.columns
    a_pc,             \* main: "rows" while the ledger is computed, then "done"
    a_date,           \* the dates of portfolio.index handled so far (1, 2, ...)
    aligned_prices,   \* the row of aligned_prices of the last date
    vnindex,          \* the forward-filled INDEXVALUE of the last date
    caps_ff,          \* the forward-filled market caps of the last date
    port_sum, port_cnt, \* expanding sum / count of the portfolio weights
    bench_sum,        \* expanding sum of the benchmark weights
    baseline_ff,      \* the forward-filled baseline weights of the last date
    base_sum, base_cnt, \* expanding sum / count of the baseline weights
    baseline_value,   \* the static run's PortfolioValue of the last date
    daily,            \* the daily weight rows so far: portfolio_weights,
                      \* benchmark_weights, baseline_weights
    stacked,          \* the rows of the last date before dropna
    result            \* the rows of the last date in the ledger written

attrVars == <<a_price_cols, a_pc, a_date, aligned_prices, vnindex, caps_ff,
              port_sum, port_cnt, bench_sum, baseline_ff, base_sum, base_cnt,
              baseline_value, daily, stacked, result>>

VARIABLES
    other_cols,       \* whether price_history has columns outside portfolio_cols
    v_status,         \* streamlit_app.simulate_portfolio: "init", "running",
                      \* "done", "empty" (an empty frame returned) or an error
    v_units, v_cash_balance, v_rebalance_idx,
    v_record,         \* the entry last appended to its `records`
    v_first_value,    \* its PortfolioValue.iloc[0]
    vs_status,        \* streamlit_app.simulate_static_portfolio: likewise
    vs_units, vs_cash_balance, vs_record, vs_first_value

viewVars == <<other_cols, v_status, v_units, v_cash_balance, v_rebalance_idx,
              v_record, v_first_value, vs_status, vs_units, vs_cash_balance,
              vs_record, vs_first_value>>

vars == <<simVars, normVars, attrVars, viewVars>>

\* common_cols = [c for c in portfolio_cols if c in price_history.columns]
common_cols == portfolio_cols \cap price_cols

\* weights.index.min()
StartDate == CHOOSE d \in {weights[i].date : i \in 1..Len(weights)} :
                 \A j \in 1..Len(weights) : d <= weights[j].date

\* prices = price_history[common_cols].loc[price_history.index >= weights.index.min()]
\* (for an empty weights frame the minimum is NaT and no row compares >= it)
PriceRows ==
    IF weights = <<>> THEN <<>>
    ELSE SortedSeq({d \in price_dates : d >= StartDate})

\* target_weights.get(key, 0.0)
Get(w, key) == IF key \in DOMAIN w THEN w[key] ELSE Zero

\* The allocation divided by the price whatever the price is.
UnitsForUnguarded(value, weight, price) == Div(Mul(value, weight), price)

\* units[ticker] = allocation / price if price and not np.isnan(price) else 0.0
UnitsFor(value, weight, price) ==
    IF ValidPrice(price) THEN Div(Mul(value, weight), price) ELSE Zero

\* float((units * px).sum() + cash_balance)
Value(u, p, cash) ==
    Add(SumSkipNa([t \in common_cols |-> Mul(u[t], p[t])], common_cols), cash)

\* weights_today = (units * px) / portfolio_value
WeightsToday(u, p, value) == [t \in common_cols |-> Div(Mul(u[t], p[t]), value)]

\* The pre-event value without the bootstrap of the first event.
PreEventValueNoBootstrap(st, p) == Value(st.units, p, st.cash)

\* The pre-event value of a rebalance event: 100.0 for the first one.
PreEventValue(st, p) == IF st.idx = 0 THEN R(100) ELSE Value(st.units, p, st.cash)

\* A rebalance event that adds the new allocation to the holdings it finds.
RebalanceAdditive(st, date, p) ==
    LET target_date == weights[st.idx + 1].date
        portfolio_value == PreEventValue(st, p)
        target_weights == weights[st.idx + 1].w
    IN  [units   |-> [t \in common_cols |->
                        Add(st.units[t],
                            UnitsFor(portfolio_value, Get(target_weights, t), p[t]))],
         cash    |-> Add(st.cash, Mul(portfolio_value, Get(target_weights, "CASH"))),
         idx     |-> st.idx + 1,
         applied |-> Append(st.applied, <<target_date, date>>)]

\* A rebalance event that keeps as cash the allocation of the tickers it
\* cannot buy.
RebalanceAbandonedToCash(st, date, p) ==
    LET target_date == weights[st.idx + 1].date
        portfolio_value == PreEventValue(st, p)
        target_weights == weights[st.idx + 1].w
        unbought == {t \in common_cols : ~ValidPrice(p[t])}
    IN  [units   |-> [t \in common_cols |->
                        UnitsFor(portfolio_value, Get(target_weights, t), p[t])],
         cash    |-> Add(Mul(portfolio_value, Get(target_weights, "CASH")),
                         Mul(portfolio_value, SumAll(target_weights, unbought))),
         idx     |-> st.idx + 1,
         applied |-> Append(st.applied, <<target_date, date>>)]

\* One iteration of the while loop of simulate_portfolio: a rebalance event.
Rebalance(st, date, p) ==
    LET target_date == weights[st.idx + 1].date
        portfolio_value == PreEventValue(st, p)
        target_weights == weights[st.idx + 1].w
    IN  [units   |-> [t \in common_cols |->
                        UnitsFor(portfolio_value, Get(target_weights, t), p[t])],
         cash    |-> Mul(portfolio_value, Get(target_weights, "CASH")),
         idx     |-> st.idx + 1,
         applied |-> Append(st.applied, <<target_date, date>>)]

\* while rebalance_idx < len(rebalance_dates) and date >= rebalance_dates[rebalance_idx]
Due(idx, date) == idx < Len(weights) /\ date >= weights[idx + 1].date

\* At most one event per price row (an `if` in place of the `while`).
ApplyDueOnce(st, date, p) ==
    IF Due(st.idx, date) THEN Rebalance(st, date, p) ELSE st

RECURSIVE ApplyDue(_, _, _)
ApplyDue(st, date, p) ==
    IF Due(st.idx, date) THEN ApplyDue(Rebalance(st, date, p), date, p) ELSE st

\* The purchase without the cash bucket.
StaticBuyNoCash(start_prices) ==
    [units |-> [t \in common_cols |->
                  UnitsFor(R(100), Get(weights[1].w, t), start_prices[t])],
     cash  |-> Zero]

\* The purchase made from a portfolio worth 1.0.
StaticBuyUnitValue(start_prices) ==
    LET initial_weights == weights[1].w
        portfolio_value == R(1)
    IN  [units |-> [t \in common_cols |->
                      UnitsFor(portfolio_value, Get(initial_weights, t), start_prices[t])],
         cash  |-> Mul(portfolio_value, Get(initial_weights, "CASH"))]

\* The purchase of simulate_static_portfolio, at prices.loc[start_date].
StaticBuy(start_prices) ==
    LET initial_weights == weights[1].w
        portfolio_value == R(100)
    IN  [units |-> [t \in common_cols |->
                      UnitsFor(portfolio_value, Get(initial_weights, t), start_prices[t])],
         cash  |-> Mul(portfolio_value, Get(initial_weights, "CASH"))]

\* portfolio["PortfolioIndex"] = PortfolioValue / PortfolioValue.iloc[0] * 100
PortfolioIndex(value, first) == Mul(Div(value, first), R(100))

\* An entry of `records`, with the PortfolioIndex the frame gets for it.
Record(date, value, cash, first) ==
    [date |-> date, PortfolioValue |-> value, CashBalance |-> cash,
     PortfolioIndex |-> PortfolioIndex(value, first)]

\* No overlap check.
DynPreNoCheck == "running"

\* The checks simulate_portfolio makes before its loop.
DynPre == IF common_cols = {} THEN "err_overlap" ELSE "running"

\* No anchor check.
StaticPreNoAnchor ==
    IF weights = <<>> THEN "err_empty"
    ELSE IF common_cols = {} THEN "err_overlap"
    ELSE "running"

\* The checks simulate_static_portfolio makes before its loop.
StaticPre ==
    IF weights = <<>> THEN "err_empty"
    ELSE IF common_cols = {} THEN "err_overlap"
    ELSE IF StartDate \notin {PriceRows[i] : i \in 1..Len(PriceRows)} THEN "err_anchor"
    ELSE "running"

NoUnits == [t \in common_cols |-> Zero]

NoRecord == [date |-> 0, PortfolioValue |-> NaN, CashBalance |-> NaN,
             PortfolioIndex |-> NaN]

\* price_history.empty: no row or no column.
PriceHistoryEmpty == price_dates = {} \/ (price_cols = {} /\ ~other_cols)

\* The checks streamlit_app.simulate_portfolio makes before its loop.
ViewDynPre ==
    IF weights = <<>> \/ PriceHistoryEmpty THEN "empty"
    ELSE IF common_cols = {} THEN "err_overlap"
    ELSE "running"

\* The checks streamlit_app.simulate_static_portfolio makes before its loop.
ViewStaticPre ==
    IF weights = <<>> THEN "empty"
    ELSE IF common_cols = {} \/ StartDate \notin price_dates THEN "empty"
    ELSE "running"

ViewInit ==
    /\ other_cols \in IF price_cols = {} THEN BOOLEAN ELSE {FALSE}
    /\ v_status = "init"
    /\ v_units = NoUnits
    /\ v_cash_balance = Zero
    /\ v_rebalance_idx = 0
    /\ v_record = NoRecord
    /\ v_first_value = NaN
    /\ vs_status = "init"
    /\ vs_units = NoUnits
    /\ vs_cash_balance = Zero
    /\ vs_record = NoRecord
    /\ vs_first_value = NaN

ViewIdle ==
    /\ other_cols = FALSE
    /\ v_status = "idle" /\ v_units = <<>> /\ v_cash_balance = Zero
    /\ v_rebalance_idx = 0 /\ v_record = NoRecord /\ v_first_value = NaN
    /\ vs_status = "idle" /\ vs_units = <<>> /\ vs_cash_balance = Zero
    /\ vs_record = NoRecord /\ vs_first_value = NaN

\* The interactive view enters its simulators with the same inputs.
ViewStart ==
    /\ v_status' = ViewDynPre
    /\ vs_status' = ViewStaticPre
    /\ UNCHANGED <<other_cols, v_units, v_cash_balance, v_rebalance_idx, v_record,
                   v_first_value, vs_units, vs_cash_balance, vs_record,
                   vs_first_value>>

\* The loop body of streamlit_app.simulate_portfolio.
ViewDynRow(date, p) ==
    LET st == ApplyDue([units |-> v_units, cash |-> v_cash_balance,
                        idx |-> v_rebalance_idx, applied |-> <<>>], date, p)
        portfolio_value == Value(st.units, p, st.cash)
        first == IF row = 0 THEN portfolio_value ELSE v_first_value
    IN  /\ v_units' = st.units
        /\ v_cash_balance' = st.cash
        /\ v_rebalance_idx' = st.idx
        /\ v_first_value' = first
        /\ v_record' = Record(date, portfolio_value, st.cash, first)

\* The loop body of streamlit_app.simulate_static_portfolio, the units bought
\* before the loop at the prices of the start date.
ViewStaticRow(date, p) ==
    LET sb == IF row = 0 THEN StaticBuy(p)
              ELSE [units |-> vs_units, cash |-> vs_cash_balance]
        portfolio_value == Value(sb.units, p, sb.cash)
        first == IF row = 0 THEN portfolio_value ELSE vs_first_value
    IN  /\ vs_units' = sb.units
        /\ vs_cash_balance' = sb.cash
        /\ vs_first_value' = first
        /\ vs_record' = Record(date, portfolio_value, sb.cash, first)

\* The view's loops read the row the batch loops read.
ViewRow(date, p) ==
    /\ IF v_status = "running"
       THEN ViewDynRow(date, p)
       ELSE UNCHANGED <<v_units, v_cash_balance, v_rebalance_idx, v_first_value,
                        v_record>>
    /\ IF vs_status = "running"
       THEN ViewStaticRow(date, p)
       ELSE UNCHANGED <<vs_units, vs_cash_balance, vs_first_value, vs_record>>
    /\ UNCHANGED <<other_cols, v_status, vs_status>>

\* The view's frames are built; PortfolioValue.iloc[0] of a frame without rows
\* raises IndexError.
ViewFinish ==
    /\ v_status' = IF v_status # "running" THEN v_status
                   ELSE IF row = 0 THEN "err_index" ELSE "done"
    /\ vs_status' = IF vs_status # "running" THEN vs_status
                    ELSE IF row = 0 THEN "err_index" ELSE "done"
    /\ UNCHANGED <<other_cols, v_units, v_cash_balance, v_rebalance_idx, v_record,
                   v_first_value, vs_units, vs_cash_balance, vs_record,
                   vs_first_value>>

SimInit ==
    /\ weights \in WeightMatrices
    /\ price_cols \in SUBSET portfolio_cols
    /\ price_dates \in SUBSET Dates
    /\ pc = "start"
    /\ row = 0
    /\ px = [t \in common_cols |-> NaN]
    /\ flat = TRUE
    /\ d_status = "init"
    /\ units = NoUnits
    /\ cash_balance = Zero
    /\ rebalance_idx = 0
    /\ record = NoRecord
    /\ first_value = NaN
    /\ weights_today = NoUnits
    /\ applied = <<>>
    /\ s_status = "init"
    /\ s_units = NoUnits
    /\ s_cash_balance = Zero
    /\ s_record = NoRecord
    /\ s_first_value = NaN
    /\ s_weights_today = NoUnits

\* Both simulators are entered with the same weights and price_history.
Start ==
    /\ pc = "start"
    /\ pc' = "loop"
    /\ d_status' = DynPre
    /\ s_status' = StaticPre
    /\ UNCHANGED <<weights, price_cols, price_dates, row, px, flat, units, cash_balance,
                   rebalance_idx, record, first_value, weights_today, applied,
                   s_units, s_cash_balance, s_record, s_first_value, s_weights_today>>
    /\ ViewStart
    /\ UNCHANGED <<normVars, attrVars>>

\* A price row is forward-filled: a price is missing only while it has been
\* missing on every earlier row.
RowChoices == {p \in [common_cols -> {NaN, Zero, R(10), R(20)}] :
                 /\ \A t \in common_cols : p[t] \in PriceVals(t)
                 /\ row > 0 => \A t \in common_cols : IsNaN(p[t]) => IsNaN(px[t])}

\* The body of `for date, px in prices.iterrows()` of simulate_portfolio.
DynRow(date, p) ==
    LET st == ApplyDue([units |-> units, cash |-> cash_balance,
                        idx |-> rebalance_idx, applied |-> applied], date, p)
        portfolio_value == Value(st.units, p, st.cash)
        first == IF row = 0 THEN portfolio_value ELSE first_value
    IN  /\ units' = st.units
        /\ cash_balance' = st.cash
        /\ rebalance_idx' = st.idx
        /\ applied' = st.applied
        /\ first_value' = first
        /\ record' = Record(date, portfolio_value, st.cash, first)
        /\ weights_today' = WeightsToday(st.units, p, portfolio_value)

\* A loop body that buys the initial weights again at the prices of every row.
StaticRowRebuy(date, p) ==
    LET sb == StaticBuy(p)
        portfolio_value == Value(sb.units, p, sb.cash)
        first == IF row = 0 THEN portfolio_value ELSE s_first_value
    IN  /\ s_units' = sb.units
        /\ s_cash_balance' = sb.cash
        /\ s_first_value' = first
        /\ s_record' = Record(date, portfolio_value, sb.cash, first)
        /\ s_weights_today' = WeightsToday(sb.units, p, portfolio_value)

\* The body of `for date, px in prices.iterrows()` of simulate_static_portfolio;
\* the units are bought before the loop at the first row, the start date's.
StaticRow(date, p) ==
    LET sb == IF row = 0 THEN StaticBuy(p)
              ELSE [units |-> s_units, cash |-> s_cash_balance]
        portfolio_value == Value(sb.units, p, sb.cash)
        first == IF row = 0 THEN portfolio_value ELSE s_first_value
    IN  /\ s_units' = sb.units
        /\ s_cash_balance' = sb.cash
        /\ s_first_value' = first
        /\ s_record' = Record(date, portfolio_value, sb.cash, first)
        /\ s_weights_today' = WeightsToday(sb.units, p, portfolio_value)

\* Both loops read the same row of the same price matrix.
Row ==
    /\ pc = "loop"
    /\ row < Len(PriceRows)
    /\ "running" \in {d_status, s_status, v_status, vs_status}
    /\ \E p \in RowChoices :
         /\ px' = p
         /\ flat' = (row = 0 \/ (flat /\ p = px))
         /\ row' = row + 1
         /\ IF d_status = "running"
            THEN DynRow(PriceRows[row + 1], p)
            ELSE UNCHANGED <<units, cash_balance, rebalance_idx, applied,
                             first_value, record, weights_today>>
         /\ IF s_status = "running"
            THEN StaticRow(PriceRows[row + 1], p)
            ELSE UNCHANGED <<s_units, s_cash_balance, s_first_value, s_record,
                             s_weights_today>>
         /\ ViewRow(PriceRows[row + 1], p)
    /\ UNCHANGED <<weights, price_cols, price_dates, pc, d_status, s_status>>
    /\ UNCHANGED <<normVars, attrVars>>

\* The end of the loops: the frames are built and PortfolioIndex is computed;
\* PortfolioValue.iloc[0] of a frame without rows raises IndexError.
Finish ==
    /\ pc = "loop"
    /\ row = Len(PriceRows) \/ "running" \notin {d_status, s_status, v_status, vs_status}
    /\ pc' = "done"
    /\ d_status' = IF d_status # "running" THEN d_status
                   ELSE IF row = 0 THEN "err_index" ELSE "done"
    /\ s_status' = IF s_status # "running" THEN s_status
                   ELSE IF row = 0 THEN "err_index" ELSE "done"
    /\ UNCHANGED <<weights, price_cols, price_dates, row, px, flat, units, cash_balance,
                   rebalance_idx, record, first_value, weights_today, applied,
                   s_units, s_cash_balance, s_record, s_first_value, s_weights_today>>
    /\ ViewFinish
    /\ UNCHANGED <<normVars, attrVars>>

SimIdle ==
    /\ weights = <<>> /\ price_cols = {} /\ price_dates = {}
    /\ pc = "idle" /\ row = 0 /\ px = <<>> /\ flat = TRUE
    /\ d_status = "idle" /\ units = <<>> /\ cash_balance = Zero
    /\ rebalance_idx = 0 /\ record = NoRecord /\ first_value = NaN
    /\ weights_today = <<>> /\ applied = <<>>
    /\ s_status = "idle" /\ s_units = <<>> /\ s_cash_balance = Zero
    /\ s_record = NoRecord /\ s_first_value = NaN /\ s_weights_today = <<>>

(***************************************************************************)
(* load_rebalance_weights: the Weight Table Normalizer.  Identifiers are   *)
(* sequences of characters.  Column headers are timestamps [day, hour]     *)
(* (string headers go through pd.to_datetime, which is not modelled).      *)
(***************************************************************************)
MaxRows == 2

UpperChars == <<"A", "B", "C", "D", "E", "F", "G", "H", "I", "J", "K", "L", "M",
                "N", "O", "P", "Q", "R", "S", "T", "U", "V", "W", "X", "Y", "Z">>

LowerChars == <<"a", "b", "c", "d", "e", "f", "g", "h", "i", "j", "k", "l", "m",
                "n", "o", "p", "q", "r", "s", "t", "u", "v", "w", "x", "y", "z">>

IsUpper(c) == \E i \in 1..Len(UpperChars) : UpperChars[i] = c

IsLower(c) == \E i \in 1..Len(LowerChars) : LowerChars[i] = c

ToLower(c) ==
    IF IsUpper(c) THEN LowerChars[CHOOSE i \in 1..Len(UpperChars) : UpperChars[i] = c]
    ELSE c

ToUpper(c) ==
    IF IsLower(c) THEN UpperChars[CHOOSE i \in 1..Len(LowerChars) : LowerChars[i] = c]
    ELSE c

\* str.upper()
UpperStr(str) == [i \in 1..Len(str) |-> ToUpper(str[i])]

LowerStr(str) == [i \in 1..Len(str) |-> ToLower(str[i])]

Contains(str, sub) ==
    \E k \in 0..(Len(str) - Len(sub)) : SubSeq(str, k + 1, k + Len(sub)) = sub

\* str.contains(sub, case=False)
ContainsCI(str, sub) == Contains(LowerStr(str), LowerStr(sub))

\* str.fullmatch(r"[A-Z]{3}")
ticker_mask(str) == Len(str) = 3 /\ \A i \in 1..3 : IsUpper(str[i])

\* str.contains("cash", case=False)
cash_mask(str) == ContainsCI(str, <<"c", "a", "s", "h">>)

\* str.contains("total", case=False)
IsTotal(str) == ContainsCI(str, <<"t", "o", "t", "a", "l">>)

\* parse_rebalance_label on a Timestamp: label.normalize()
parse_rebalance_label(label) == label.day

Idents == {<<"A", "A", "A">>, <<"B", "B", "B">>, <<"a", "a", "a">>,
           <<"C", "a", "s", "h">>, <<"T", "o", "t", "a", "l">>}

Cells == {NaN, Zero, R(1)}

Label(d, h) == [day |-> d, hour |-> h]

Headers == {<<Label(1, 0), Label(2, 0)>>, <<Label(2, 0), Label(1, 9)>>,
            <<Label(1, 0), Label(1, 9)>>}

\* df[~df["Ticker"].astype(str).str.contains("total", case=False, na=False)]
Kept(df) == SelectSeq(df, LAMBDA r : ~IsTotal(r.Ticker))

\* df.melt(id_vars="Ticker", value_vars=value_cols): column by column, the
\* rows in sheet order; RebalanceDate through date_map.
Melt(df, cols) ==
    LET nk == Len(df)
    IN  [k \in 1..(Len(cols) * nk) |->
            LET c == ((k - 1) \div nk) + 1
                i == ((k - 1) % nk) + 1
            IN  [Ticker |-> df[i].Ticker,
                 RebalanceDate |-> parse_rebalance_label(cols[c]),
                 Weight |-> df[i].Weight[c]]]

\* melted[ticker_mask], the matched identifiers upper-cased.
TickerRows(melted) ==
    LET m == SelectSeq(melted, LAMBDA r : ticker_mask(r.Ticker))
    IN  [k \in 1..Len(m) |-> [m[k] EXCEPT !.Ticker = UpperStr(m[k].Ticker)]]

\* melted[cash_mask]
CashRows(melted) == SelectSeq(melted, LAMBDA r : cash_mask(r.Ticker))

\* aggfunc="first": the first non-null Weight of the (date, ticker) group.
FirstWeight(rows, d, t) ==
    LET hits == SelectSeq(rows, LAMBDA r :
                    r.RebalanceDate = d /\ r.Ticker = t /\ ~IsNaN(r.Weight))
    IN  IF hits = <<>> THEN NaN ELSE hits[1].Weight

\* The rows of a frame that carry a value.
Valued(rows) == {x \in {rows[k] : k \in 1..Len(rows)} : ~IsNaN(x.Weight)}

\* ticker_weights = pivot_table(index="RebalanceDate", columns="Ticker",
\* aggfunc="first").fillna(0.0): pivot_table drops the groups without a value,
\* so the index and the columns are those of the groups left.
PivotTable(trows) ==
    LET index == {r.RebalanceDate : r \in Valued(trows)}
        columns == {r.Ticker : r \in Valued(trows)}
    IN  [d \in index |-> [t \in columns |->
            LET f == FirstWeight(trows, d, t) IN IF IsNaN(f) THEN Zero ELSE f]]

RECURSIVE SeqSumSkipNa(_)
SeqSumSkipNa(ws) ==
    IF ws = <<>> THEN Zero
    ELSE IF IsNaN(Head(ws)) THEN SeqSumSkipNa(Tail(ws))
    ELSE Add(Head(ws), SeqSumSkipNa(Tail(ws)))

\* melted[cash_mask].groupby("RebalanceDate")["Weight"].sum()
CashWeights(crows) ==
    [d \in {crows[k].RebalanceDate : k \in 1..Len(crows)} |->
        LET rs == SelectSeq(crows, LAMBDA r : r.RebalanceDate = d)
        IN  SeqSumSkipNa([k \in 1..Len(rs) |-> rs[k].Weight])]

\* The column name "CASH".
CashCol == <<"C", "A", "S", "H">>

\* The ticker columns of a weights frame.
TickerCols(tw) == UNION {DOMAIN tw[d] : d \in DOMAIN tw}

\* weights = ticker_weights.copy(); weights["CASH"] = cash_weights;
\* weights.fillna(0.0): the cash column is aligned on the frame's index, and a
\* frame without rows takes the index of the column assigned.
WithCash(tw, cw) ==
    LET index == IF DOMAIN tw = {} THEN DOMAIN cw ELSE DOMAIN tw
    IN  [d \in index |-> [c \in TickerCols(tw) \cup {CashCol} |->
            IF c = CashCol THEN (IF d \in DOMAIN cw THEN cw[d] ELSE Zero)
            ELSE tw[d][c]]]

\* weights.sum(axis=1)
RowSum(w) == SumSkipNa(w, DOMAIN w)

\* weights.div(weights.sum(axis=1), axis=0), row by row.
Normalize(w) == [c \in DOMAIN w |-> Div(w[c], RowSum(w))]

\* The frame before the division: rows in ascending date order.
UnnormalizedWeights(df, cols) ==
    LET melted == Melt(Kept(df), cols)
        tw == PivotTable(TickerRows(melted))
        frame == WithCash(tw, CashWeights(CashRows(melted)))
        idx == SortedSeq(DOMAIN frame)
    IN  [i \in 1..Len(idx) |-> [date |-> idx[i], w |-> frame[idx[i]]]]

\* The frame load_rebalance_weights returns.
NormalizedWeights(df, cols) ==
    LET u == UnnormalizedWeights(df, cols)
    IN  [i \in 1..Len(u) |-> [date |-> u[i].date, w |-> Normalize(u[i].w)]]

RawRows == [Ticker : Idents, Weight : [1..2 -> Cells]]

RawTables == UNION {[1..n -> RawRows] : n \in 0..MaxRows}

NormInit ==
    /\ has_ticker_col \in BOOLEAN
    /\ value_cols \in Headers
    /\ raw \in (IF has_ticker_col THEN RawTables ELSE {<<>>})
    /\ n_pc = "start"
    /\ n_status = "init"
    /\ n_weights = <<>>
    /\ active_tickers = {}

NormIdle ==
    /\ has_ticker_col = TRUE /\ value_cols = <<>> /\ raw = <<>>
    /\ n_pc = "idle" /\ n_status = "idle" /\ n_weights = <<>>
    /\ active_tickers = {}

\* load_rebalance_weights()
Load ==
    /\ n_pc = "start"
    /\ n_pc' = "done"
    /\ IF ~has_ticker_col
       THEN /\ n_status' = "err_no_ticker_column"
            /\ UNCHANGED <<n_weights, active_tickers>>
       ELSE /\ n_status' = "ok"
            /\ n_weights' = NormalizedWeights(raw, value_cols)
            /\ active_tickers' =
                  UNION {DOMAIN n_weights'[i].w : i \in 1..Len(n_weights')} \ {CashCol}
    /\ UNCHANGED <<has_ticker_col, value_cols, raw>>
    /\ UNCHANGED <<simVars, attrVars, viewVars>>

(***************************************************************************)
(* main: the attribution ledger, one date of portfolio.index at a time.    *)
(* AAA is a portfolio ticker (a column of daily_weights), BBB a ticker of  *)
(* the benchmark universe only; both have market caps.  The ledger rows    *)
(* carry the columns of the comparison with the benchmark index.           *)
(***************************************************************************)
MaxLedgerDates == 3

all_tickers == {"AAA", "BBB"}

daily_weights_cols == {"AAA"}

market_caps_cols == {"AAA", "BBB"}

\* aligned_prices.pct_change() with the first row filled with 0.
PctChangeZeroFirst(cur, prev, first) ==
    IF first THEN Zero ELSE Sub(Div(cur, prev), R(1))

\* Series.pct_change(): cur / prev - 1, undefined on the first row.
PctChange(cur, prev, first) ==
    IF first THEN NaN ELSE Sub(Div(cur, prev), R(1))

\* .ffill() of one cell
FFill(cur, prev) == IF IsNaN(cur) THEN prev ELSE cur

\* .fillna(0.0) of one cell
FillNa0(x) == IF IsNaN(x) THEN Zero ELSE x

\* The expanding sum in place of the expanding mean.
ExpandingSum(sum, cnt) == IF cnt = 0 THEN NaN ELSE sum

\* expanding(min_periods=1).mean(): the mean of the values seen so far.
ExpandingMean(sum, cnt) == IF cnt = 0 THEN NaN ELSE Div(sum, R(cnt))

\* market_caps....div(sum, axis=0) without the .fillna(0.0) that follows it.
BenchmarkWeightsNoFill(caps) ==
    LET filled == [t \in market_caps_cols |-> FillNa0(caps[t])]
        total == SumSkipNa(filled, market_caps_cols)
    IN  [t \in all_tickers |->
            IF t \in market_caps_cols THEN Div(filled[t], total) ELSE Zero]

\* market_caps.reindex(portfolio.index).ffill().fillna(0.0), divided by the
\* row sum, .fillna(0.0), reindexed on all_tickers with fill_value 0.0
BenchmarkWeights(caps) ==
    LET filled == [t \in market_caps_cols |-> FillNa0(caps[t])]
        total == SumSkipNa(filled, market_caps_cols)
    IN  [t \in all_tickers |->
            IF t \in market_caps_cols THEN FillNa0(Div(filled[t], total)) ELSE Zero]

\* result.dropna(subset=["Attribution"])
DropNa(rows) == {r \in rows : ~IsNaN(r.Attribution)}

\* The inputs of one date: the price row (forward-filled by fetch_price_history,
\* so missing only before the ticker's first price), the realized weights of
\* the dynamic and of the static run (undefined exactly while the ticker has no
\* price; the static run never holds a ticker that had no price on the first
\* date), the market caps, the index level and the value of the static
\* portfolio.
LedgerInputs ==
    LET PriceChoices ==
            {p \in [a_price_cols -> {NaN, R(10), R(20)}] :
                /\ "BBB" \in a_price_cols => p["BBB"] = R(10)
                /\ a_date > 0 => \A t \in a_price_cols :
                                    IsNaN(p[t]) => IsNaN(aligned_prices[t])}
        WeightChoices(p, values) ==
            {x \in [daily_weights_cols -> values \cup {NaN}] :
                \A t \in daily_weights_cols : IsNaN(x[t]) <=> IsNaN(p[t])}
        BaselineChoices(p) ==
            {x \in [daily_weights_cols -> {NaN, Zero, Frac(1, 2)}] :
                \A t \in daily_weights_cols :
                    x[t] = IF IsNaN(p[t]) THEN NaN
                           ELSE IF a_date > 0 /\ IsNaN(daily[1].baseline_weights[t])
                                THEN Zero
                                ELSE Frac(1, 2)}
        CapChoices ==
            {c \in [market_caps_cols -> {NaN, R(1)}] :
                IsNaN(c["AAA"]) => IsNaN(c["BBB"])}
    IN  UNION {{[px |-> p, w |-> w, bw |-> bw, caps |-> c, idx |-> i, bval |-> v] :
                    w \in WeightChoices(p, {Zero, Frac(1, 2)}),
                    bw \in BaselineChoices(p),
                    c \in CapChoices,
                    i \in {R(100), R(110)},
                    v \in {R(100), R(110)}} : p \in PriceChoices}

AttrInit ==
    /\ a_price_cols \in {{"AAA", "BBB"}, {"AAA"}}
    /\ a_pc = "rows"
    /\ a_date = 0
    /\ aligned_prices = [t \in a_price_cols |-> NaN]
    /\ vnindex = NaN
    /\ caps_ff = [t \in market_caps_cols |-> NaN]
    /\ port_sum = [t \in all_tickers |-> Zero]
    /\ port_cnt = [t \in all_tickers |-> 0]
    /\ bench_sum = [t \in all_tickers |-> Zero]
    /\ baseline_ff = [t \in all_tickers |-> NaN]
    /\ base_sum = [t \in all_tickers |-> Zero]
    /\ base_cnt = [t \in all_tickers |-> 0]
    /\ baseline_value = NaN
    /\ daily = <<>>
    /\ stacked = {}
    /\ result = {}

AttrIdle ==
    /\ a_price_cols = {} /\ a_pc = "idle" /\ a_date = 0
    /\ aligned_prices = <<>> /\ vnindex = NaN /\ caps_ff = <<>>
    /\ port_sum = <<>> /\ port_cnt = <<>> /\ bench_sum = <<>>
    /\ baseline_ff = <<>> /\ base_sum = <<>> /\ base_cnt = <<>>
    /\ baseline_value = NaN /\ daily = <<>>
    /\ stacked = {} /\ result = {}

\* One stacked row of the ledger: for the ticker, on the date, the running
\* average weights of the three sides, the ticker's return (undefined without
\* a price column) and the returns of the index and of the static portfolio.
LedgerRecord(date, ticker, avg_port, avg_bench, avg_baseline, ticker_return, benchmark_return, baseline_return) ==
    LET avg_active_weights == Sub(avg_port, avg_bench)
        avg_active_weights_base == Sub(avg_port, avg_baseline)
        active_returns == Sub(ticker_return, benchmark_return)
        active_returns_base == Sub(ticker_return, baseline_return)
    IN  [TRADE_DATE |-> date,
         Ticker |-> ticker,
         AvgPortfolioWeightYTD |-> avg_port,
         AvgBenchmarkWeightYTD |-> avg_bench,
         ActiveWeightYTD |-> avg_active_weights,
         TickerReturn |-> ticker_return,
         ActiveReturn |-> active_returns,
         Attribution |-> Mul(avg_active_weights, active_returns),
         AvgBaselineWeightYTD |-> avg_baseline,
         ActiveWeightVsOriginal |-> avg_active_weights_base,
         ActiveReturnVsOriginal |-> active_returns_base,
         AttributionVsOriginal |-> Mul(avg_active_weights_base, active_returns_base),
         BenchmarkReturn |-> benchmark_return,
         BaselineReturn |-> baseline_return]

\* The rows of one date of the ledger (lines 284-340 of main).
LedgerRow ==
    /\ a_pc = "rows"
    /\ a_date < MaxLedgerDates
    /\ \E in \in LedgerInputs :
         LET date == a_date + 1
             first == a_date = 0
             ticker_returns == [t \in a_price_cols |->
                 PctChange(in.px[t], aligned_prices[t], first)]
             portfolio_weights == [t \in all_tickers |->
                 IF t \in daily_weights_cols THEN in.w[t] ELSE Zero]
             psum == [t \in all_tickers |->
                 IF IsNaN(portfolio_weights[t]) THEN port_sum[t]
                 ELSE Add(port_sum[t], portfolio_weights[t])]
             pcnt == [t \in all_tickers |->
                 IF IsNaN(portfolio_weights[t]) THEN port_cnt[t] ELSE port_cnt[t] + 1]
             avg_port_weights == [t \in all_tickers |-> ExpandingMean(psum[t], pcnt[t])]
             caps == [t \in market_caps_cols |-> FFill(in.caps[t], caps_ff[t])]
             benchmark_weights == BenchmarkWeights(caps)
             bsum == [t \in all_tickers |-> Add(bench_sum[t], benchmark_weights[t])]
             avg_bench_weights == [t \in all_tickers |-> ExpandingMean(bsum[t], date)]
             baseline_weights == [t \in all_tickers |->
                 FFill(IF t \in daily_weights_cols THEN in.bw[t] ELSE Zero,
                       baseline_ff[t])]
             osum == [t \in all_tickers |->
                 IF IsNaN(baseline_weights[t]) THEN base_sum[t]
                 ELSE Add(base_sum[t], baseline_weights[t])]
             ocnt == [t \in all_tickers |->
                 IF IsNaN(baseline_weights[t]) THEN base_cnt[t] ELSE base_cnt[t] + 1]
             avg_baseline_weights == [t \in all_tickers |->
                 ExpandingMean(osum[t], ocnt[t])]
             level == FFill(in.idx, vnindex)
             benchmark_returns == PctChange(level, vnindex, first)
             baseline_returns == PctChange(in.bval, baseline_value, first)
             rows == {LedgerRecord(date, t, avg_port_weights[t], avg_bench_weights[t],
                                   avg_baseline_weights[t],
                                   IF t \in a_price_cols THEN ticker_returns[t] ELSE NaN,
                                   benchmark_returns, baseline_returns) :
                      t \in all_tickers}
         IN  /\ a_date' = date
             /\ aligned_prices' = in.px
             /\ vnindex' = level
             /\ caps_ff' = caps
             /\ port_sum' = psum
             /\ port_cnt' = pcnt
             /\ bench_sum' = bsum
             /\ baseline_ff' = baseline_weights
             /\ base_sum' = osum
             /\ base_cnt' = ocnt
             /\ baseline_value' = in.bval
             /\ daily' = Append(daily, [portfolio_weights |-> portfolio_weights,
                                        benchmark_weights |-> benchmark_weights,
                                        baseline_weights |-> baseline_weights])
             /\ stacked' = rows
             /\ result' = DropNa(rows)
    /\ UNCHANGED <<a_price_cols, a_pc>>
    /\ UNCHANGED <<simVars, normVars, viewVars>>

\* result.to_csv(OUTPUT_PATH)
Save ==
    /\ a_pc = "rows"
    /\ a_date >= 1
    /\ a_pc' = "done"
    /\ UNCHANGED <<a_price_cols, a_date, aligned_prices, vnindex, caps_ff,
                   port_sum, port_cnt, bench_sum, baseline_ff, base_sum, base_cnt,
                   baseline_value, daily, stacked, result>>
    /\ UNCHANGED <<simVars, normVars, viewVars>>

SimNext == Start \/ Row \/ Finish

Init == SimInit /\ ViewInit /\ NormIdle /\ AttrIdle

Spec == Init /\ [][SimNext]_vars

NormNext == Load

InitNorm == NormInit /\ SimIdle /\ ViewIdle /\ AttrIdle

SpecNorm == InitNorm /\ [][NormNext]_vars

AttrNext == LedgerRow \/ Save

InitAttr == AttrInit /\ SimIdle /\ ViewIdle /\ NormIdle

SpecAttr == InitAttr /\ [][AttrNext]_vars

(***************************************************************************)
(* Properties of the simulators.                                           *)
(***************************************************************************)
Returned(status) == status = "done"

Recording(status) == status \in {"running", "done"}

HasRecord(status) == Recording(status) /\ row >= 1

\* C1 (as claimed): in every run that returns a PerformanceSeries, of either
\* simulator, PortfolioIndex at the first recorded date is exactly 100.0.
C1_FirstIndexIs100 ==
    /\ Returned(d_status) => PortfolioIndex(first_value, first_value) = R(100)
    /\ Returned(s_status) => PortfolioIndex(s_first_value, s_first_value) = R(100)

\* C2 (as claimed): in simulate_portfolio, on every recorded date from the
\* first applied rebalance on, the realized weights of common_cols (summed as
\* pandas sums, missing entries left out) plus CashBalance / PortfolioValue
\* are 1.0.
C2_WeightsAndCashSumToOne ==
    (HasRecord(d_status) /\ rebalance_idx >= 1) =>
        Add(SumSkipNa(weights_today, common_cols),
            Div(record.CashBalance, record.PortfolioValue)) = R(1)

SnapshotsUpTo(d) == {i \in 1..Len(weights) : weights[i].date <= d}

\* C4: no rebalance event is skipped. The events applied so far are the
\* snapshots in ascending order, each once, each at the earliest price row on
\* or after its date; after a row d the number applied is the number of
\* snapshot dates <= d; a finished run has applied every snapshot dated on or
\* before the last price date.
C4_NoEventSkipped ==
    Recording(d_status) =>
        /\ Len(applied) = rebalance_idx
        /\ \A i \in 1..Len(applied) :
              /\ applied[i][1] = weights[i].date
              /\ applied[i][2] \in price_dates
              /\ applied[i][2] >= weights[i].date
              /\ \A d \in price_dates : d >= weights[i].date => applied[i][2] <= d
        /\ \A i, j \in 1..Len(applied) : i < j => applied[i][1] < applied[j][1]
        /\ row >= 1 => rebalance_idx = Cardinality(SnapshotsUpTo(record.date))
        /\ Returned(d_status) =>
              rebalance_idx = Cardinality({i \in 1..Len(weights) :
                                  \E d \in price_dates : weights[i].date <= d})

\* Two snapshots fall between price rows and are both applied at the later row.
C4_Witness ==
    /\ Returned(d_status)
    /\ Len(applied) = 2
    /\ applied[1][2] = applied[2][2]
    /\ applied[1][1] < applied[2][1]
    /\ applied[2][1] < applied[2][2]
    /\ record.date = applied[2][2]

\* C6 (as claimed): a simulator fails with the empty-overlap error exactly
\* when no weighted ticker is a price column; otherwise the tickers absent
\* from the price matrix hold no units and have no weight column, and the run
\* completes without error.
C6_OverlapErrorIffNoOverlap ==
    pc = "done" =>
        /\ d_status = "err_overlap" <=> portfolio_cols \cap price_cols = {}
        /\ s_status = "err_overlap" <=> portfolio_cols \cap price_cols = {}
        /\ portfolio_cols \cap price_cols # {} =>
              /\ Returned(d_status) /\ Returned(s_status)
              /\ DOMAIN units = portfolio_cols \cap price_cols
              /\ DOMAIN weights_today = portfolio_cols \cap price_cols

NoRowOnOrAfterStart ==
    \/ weights = <<>>
    \/ \A d \in price_dates : d < weights[1].date

AnchorMissing == weights # <<>> /\ weights[1].date \notin price_dates

\* C6 (amended): simulate_portfolio fails with the empty-overlap error exactly
\* when no weighted ticker is a price column, and simulate_static_portfolio
\* exactly when moreover the weight table is not empty. When some ticker
\* overlaps, the absent tickers hold no units and have no weight column and
\* cause no error: the dynamic run returns unless the price matrix has no row
\* on or after the first snapshot date (then building the index fails on the
\* empty frame), the static run unless the weight table is empty or the first
\* snapshot date is not a price row.
C6_OverlapErrorAmended ==
    pc = "done" =>
        /\ d_status = "err_overlap" <=> portfolio_cols \cap price_cols = {}
        /\ s_status = "err_overlap" <=>
              (weights # <<>> /\ portfolio_cols \cap price_cols = {})
        /\ portfolio_cols \cap price_cols # {} =>
              /\ d_status = IF NoRowOnOrAfterStart THEN "err_index" ELSE "done"
              /\ s_status = IF weights = <<>> THEN "err_empty"
                            ELSE IF AnchorMissing THEN "err_anchor" ELSE "done"
              /\ DOMAIN units = portfolio_cols \cap price_cols
              /\ DOMAIN weights_today = portfolio_cols \cap price_cols
              /\ DOMAIN s_units = portfolio_cols \cap price_cols
              /\ DOMAIN s_weights_today = portfolio_cols \cap price_cols

\* BBB is weighted but has no price column; both runs return.
C6_Witness ==
    /\ pc = "done"
    /\ price_cols = {"AAA"}
    /\ weights # <<>> /\ Less(Zero, weights[1].w["BBB"])
    /\ Returned(d_status) /\ Returned(s_status)
    /\ row >= 2

\* C7 (as claimed): in static mode a first rebalance date that is not a price
\* row aborts the run with the missing-anchor error and an empty weight table
\* aborts it with an error; nothing is recorded.
C7_MissingAnchorAborts ==
    pc # "start" =>
        /\ AnchorMissing => (s_status = "err_anchor" /\ s_record = NoRecord)
        /\ weights = <<>> => (s_status = "err_empty" /\ s_record = NoRecord)

\* C7 (amended): in static mode a first rebalance date that is not a price row
\* aborts the run, with the missing-anchor error when some weighted ticker is a
\* price column and with the empty-overlap error (checked first) otherwise; an
\* empty weight table aborts it with the empty-table error; nothing is
\* recorded in either case.
C7_MissingAnchorAmended ==
    pc # "start" =>
        /\ AnchorMissing =>
              /\ s_status = IF portfolio_cols \cap price_cols = {}
                            THEN "err_overlap" ELSE "err_anchor"
              /\ s_record = NoRecord /\ s_weights_today = NoUnits
        /\ weights = <<>> =>
              (s_status = "err_empty" /\ s_record = NoRecord /\ s_weights_today = NoUnits)

\* The anchor is missing while later price rows exist, which the dynamic run uses.
C7_Witness ==
    /\ pc = "done"
    /\ AnchorMissing
    /\ s_status = "err_anchor"
    /\ Returned(d_status)
    /\ row >= 1

\* C8: at a rebalance event a ticker whose price on the row is zero or missing
\* gets exactly zero units and the run goes on; on a row without an event the
\* units are those of the row before, so an abandoned ticker stays at zero
\* until the next event whatever its price does.
C8_AbandonedNotRetried ==
    [][(pc = "loop" /\ row' = row + 1) =>
          /\ d_status = "running" =>
                /\ d_status' = "running"
                /\ IF rebalance_idx' > rebalance_idx
                   THEN \A t \in common_cols :
                          ~ValidPrice(px'[t]) => units'[t] = Zero
                   ELSE units' = units
          /\ s_status = "running" =>
                /\ s_status' = "running"
                /\ IF row = 0
                   THEN \A t \in common_cols :
                          ~ValidPrice(px'[t]) => s_units'[t] = Zero
                   ELSE s_units' = s_units]_vars

\* A ticker with a positive target weight was left at zero units by the last
\* event, applied on an earlier row, and has a valid price by now.
C8_Witness ==
    /\ d_status = "running"
    /\ rebalance_idx >= 1
    /\ applied[rebalance_idx][2] < record.date
    /\ \E t \in common_cols :
          /\ Less(Zero, weights[rebalance_idx].w[t])
          /\ units[t] = Zero
          /\ ValidPrice(px[t])
          /\ s_units[t] = Zero

\* Every ticker with a positive target weight in a snapshot among the first n
\* is a price column with a positive price on the current row.
WeightedArePriced(n) ==
    \A i \in 1..n : \A t \in portfolio_cols :
        Less(Zero, weights[i].w[t]) => (t \in price_cols /\ Less(Zero, px[t]))

UnitsAreTargets(u, w) ==
    \A t \in common_cols :
        u[t] = IF Less(Zero, w[t]) THEN Div(Mul(R(100), w[t]), px[t]) ELSE Zero

\* C9: while the prices are the same on every row and every ticker with a
\* positive target weight has a positive price, the units after the first
\* rebalance are 100 x weight / price and PortfolioIndex is 100.0 on every
\* recorded date, in dynamic mode (whatever the number of snapshots applied)
\* and in static mode.
C9_FlatPricesKeepIndex ==
    (row >= 1 /\ flat) =>
        /\ (Recording(d_status) /\ WeightedArePriced(rebalance_idx)) =>
              /\ record.PortfolioIndex = R(100)
              /\ rebalance_idx = 1 => UnitsAreTargets(units, weights[1].w)
        /\ (Recording(s_status) /\ WeightedArePriced(1)) =>
              /\ s_record.PortfolioIndex = R(100)
              /\ UnitsAreTargets(s_units, weights[1].w)

\* The scenario of the specification: 0.6 / 0.4 at prices 10 and 20 over three
\* flat days.
C9_Witness ==
    /\ row = 3 /\ flat
    /\ Returned(d_status) /\ Returned(s_status)
    /\ Len(weights) = 1
    /\ weights[1].w = WRow(3, 2, 0)
    /\ px = [t \in portfolio_cols |-> IF t = "AAA" THEN R(10) ELSE R(20)]
    /\ units = [t \in portfolio_cols |-> IF t = "AAA" THEN R(6) ELSE R(2)]
    /\ s_units = units
    /\ record.PortfolioIndex = R(100)

\* Flat prices across two applied snapshots.
C9_WitnessTwoSnapshots ==
    /\ row >= 2 /\ flat
    /\ Returned(d_status)
    /\ rebalance_idx = 2
    /\ WeightedArePriced(2)
    /\ weights[1].w # weights[2].w
    /\ record.PortfolioIndex = R(100)

(***************************************************************************)
(* Properties of the Weight Table Normalizer.                              *)
(***************************************************************************)
HasNaN(w) == \E c \in DOMAIN w : IsNaN(w[c])

ZeroSumRow ==
    LET u == UnnormalizedWeights(raw, value_cols)
    IN  \E i \in 1..Len(u) : RowSum(u[i].w) = Zero

\* C5 (as claimed): load_rebalance_weights fails with a validation error
\* whenever some rebalance date's weight row sums to zero, and never returns a
\* WeightMatrix with a row of NaN weights.
C5_ZeroRowSumFails ==
    n_pc = "done" =>
        /\ (has_ticker_col /\ ZeroSumRow) => n_status \notin {"ok", "init"}
        /\ n_status = "ok" => \A i \in 1..Len(n_weights) : ~HasNaN(n_weights[i].w)

(***************************************************************************)
(* Properties of the attribution ledger.                                   *)
(***************************************************************************)
\* C10: the ledger written has no row for the first date of the date axis,
\* and no row whose Attribution is undefined (NaN).
C10_NoFirstDateNoUndefined ==
    \A r \in result : r.TRADE_DATE # 1 /\ ~IsNaN(r.Attribution)

\* On a later date some rows are kept, with a finite non-zero Attribution,
\* and some are dropped.
C10_Witness ==
    /\ a_date = 2
    /\ \E r \in result : IsFinite(r.Attribution) /\ r.Attribution # Zero
    /\ result # stacked

(***************************************************************************)
(* Properties of the rebalance events of simulate_portfolio.               *)
(***************************************************************************)
\* sum(units x price) + cash, the sum taken as pandas takes it.
HoldingsValue(u, p, cash) ==
    Add(SumSkipNa([t \in common_cols |-> Mul(u[t], p[t])], common_cols), cash)

\* The holdings an event leaves when it starts from the value v with the
\* target weights w at the prices p.
TargetUnits(v, w, p) ==
    [t \in common_cols |->
        IF ValidPrice(p[t]) THEN Div(Mul(v, w[t]), p[t]) ELSE Zero]

\* The pre-event value of the event of snapshot j applied on a row with the
\* prices p, the events before it on that row starting at snapshot
\* rebalance_idx + 1.
RECURSIVE EventValue(_, _)
EventValue(j, p) ==
    IF j = 1 THEN R(100)
    ELSE IF j = rebalance_idx + 1 THEN HoldingsValue(units, p, cash_balance)
    ELSE LET v == EventValue(j - 1, p)
             w == weights[j - 1].w
         IN  HoldingsValue(TargetUnits(v, w, p), p, Mul(v, w["CASH"]))

\* C11: on a price row where rebalance events are applied, the pre-event value
\* V of each is 100.0 for the first snapshot and sum(units x price) + cash of
\* the holdings left by the event before it otherwise (also on the same row);
\* the holdings after the row are those of the last event: V x weight / price
\* for each ticker of common_cols with a valid price, cash = V x cash weight,
\* nothing kept of the holdings before.
C11_EventResetsHoldings ==
    [][(pc = "loop" /\ row' = row + 1 /\ d_status = "running"
            /\ rebalance_idx' > rebalance_idx) =>
          LET j == rebalance_idx'
              V == EventValue(j, px')
              w == weights[j].w
          IN  /\ \A t \in common_cols :
                    units'[t] = IF ValidPrice(px'[t])
                                THEN Div(Mul(V, w[t]), px'[t]) ELSE Zero
              /\ cash_balance' = Mul(V, w["CASH"])]_vars

\* The second event is applied on a later row than the first, from holdings
\* whose value has moved away from 100, and buys units.
C11_Witness ==
    /\ d_status = "running"
    /\ rebalance_idx = 2
    /\ applied[1][2] < applied[2][2]
    /\ record.date = applied[2][2]
    /\ record.PortfolioValue \notin {R(100), Zero}
    /\ IsFinite(record.PortfolioValue)
    /\ \E t \in common_cols : Less(Zero, units[t])

\* C12: the holdings change at rebalance events only. On every step that
\* applies no event in simulate_portfolio the units and the cash balance are
\* those of the step before, and the CashBalance recorded is that cash; in
\* simulate_static_portfolio the units and the cash bought at the first row are
\* kept on every later row, so CashBalance is the same on every recorded date.
C12_HoldingsChangeOnlyAtEvents ==
    [][/\ rebalance_idx' = rebalance_idx =>
             /\ units' = units
             /\ cash_balance' = cash_balance
             /\ (row' = row + 1 /\ d_status = "running") =>
                    record'.CashBalance = cash_balance
       /\ row >= 1 =>
             /\ s_units' = s_units
             /\ s_cash_balance' = s_cash_balance
             /\ (row' = row + 1 /\ s_status = "running") =>
                    s_record'.CashBalance = s_record.CashBalance]_vars

\* Prices have moved since the only event applied: the recorded values have
\* drifted in both runs while units and cash are held.
C12_Witness ==
    /\ row >= 2 /\ ~flat
    /\ d_status = "running" /\ s_status = "running"
    /\ rebalance_idx = 1
    /\ applied[1][2] < record.date
    /\ record.PortfolioValue # first_value
    /\ s_record.PortfolioValue # s_first_value
    /\ Less(Zero, cash_balance)
    /\ record.CashBalance = Mul(R(100), weights[1].w["CASH"])
    /\ s_record.CashBalance = record.CashBalance
    /\ \E t \in common_cols : Less(Zero, units[t]) /\ s_units[t] = units[t]

(***************************************************************************)
(* The simulators of the interactive view against those of the batch run.  *)
(***************************************************************************)
\* C13 (as claimed): for every weights and price input the simulators of
\* streamlit_app.py end as those of calc_daily_attribution.py end, with the
\* same error or with the same date, PortfolioValue, CashBalance and
\* PortfolioIndex on every row.
C13_ViewEqualsBatch ==
    pc # "start" =>
        /\ v_status = d_status /\ v_record = record
        /\ vs_status = s_status /\ vs_record = s_record

(***************************************************************************)
(* Properties of the benchmark weights and of the ledger columns.          *)
(***************************************************************************)
\* The cap sum of the last date: forward-filled caps, a missing cap as zero.
DailyCapSum ==
    SumAll([t \in market_caps_cols |->
               IF IsNaN(caps_ff[t]) THEN Zero ELSE caps_ff[t]], market_caps_cols)

\* C14: on every date the benchmark weights sum to 1 when the cap sum of the
\* date is not zero, and every column's weight is exactly 0, neither NaN nor
\* infinite, when it is zero.
C14_BenchmarkWeightsNormalized ==
    a_date >= 1 =>
        LET bw == daily[a_date].benchmark_weights
        IN  /\ DOMAIN bw = all_tickers
            /\ DailyCapSum # Zero => SumAll(bw, all_tickers) = R(1)
            /\ DailyCapSum = Zero => \A t \in all_tickers : bw[t] = Zero

\* No cap is known on the first date, and on the second the two tickers
\* share the benchmark.
C14_Witness ==
    /\ a_date = 2
    /\ \A t \in all_tickers : daily[1].benchmark_weights[t] = Zero
    /\ \A t \in all_tickers : daily[2].benchmark_weights[t] = Frac(1, 2)
    /\ DailyCapSum = R(2)

RECURSIVE SeqSumAll(_)
SeqSumAll(ws) == IF ws = <<>> THEN Zero ELSE Add(Head(ws), SeqSumAll(Tail(ws)))

\* The mean of the values of every date, undefined when one of them is.
MeanOverAllDates(ws) == Div(SeqSumAll(ws), R(Len(ws)))

\* The mean of the defined values, undefined when there is none.
MeanOverDefined(ws) ==
    LET defined == SelectSeq(ws, LAMBDA x : ~IsNaN(x))
    IN  IF defined = <<>> THEN NaN ELSE Div(SeqSumAll(defined), R(Len(defined)))

PortfolioDaily(t) == [i \in 1..a_date |-> daily[i].portfolio_weights[t]]

BenchmarkDaily(t) == [i \in 1..a_date |-> daily[i].benchmark_weights[t]]

BaselineDaily(t) == [i \in 1..a_date |-> daily[i].baseline_weights[t]]

\* What the columns of a ledger row derive from the running averages and the
\* returns: active weights, active returns against the scalar return of the
\* comparison, and their products, for both comparisons.
DerivedColumns(r) ==
    /\ r.ActiveWeightYTD = Sub(r.AvgPortfolioWeightYTD, r.AvgBenchmarkWeightYTD)
    /\ r.ActiveReturn = Sub(r.TickerReturn, r.BenchmarkReturn)
    /\ r.Attribution = Mul(r.ActiveWeightYTD, r.ActiveReturn)
    /\ r.ActiveWeightVsOriginal =
          Sub(r.AvgPortfolioWeightYTD, r.AvgBaselineWeightYTD)
    /\ r.ActiveReturnVsOriginal = Sub(r.TickerReturn, r.BaselineReturn)
    /\ r.AttributionVsOriginal =
          Mul(r.ActiveWeightVsOriginal, r.ActiveReturnVsOriginal)
    /\ \A q \in result : /\ q.BenchmarkReturn = r.BenchmarkReturn
                         /\ q.BaselineReturn = r.BaselineReturn

\* C15 (as claimed): in every ledger row the running average weight of each
\* side is the mean of the side's daily weights over all dates from the first
\* up to the row's date; the active weight is the portfolio average minus the
\* comparison average, the active return the ticker's return minus the scalar
\* return of the comparison, Attribution their product, for the benchmark
\* index and for the static baseline.
C15_RunningAverageOverAllDates ==
    \A r \in result :
        /\ r.TRADE_DATE = a_date
        /\ r.AvgPortfolioWeightYTD = MeanOverAllDates(PortfolioDaily(r.Ticker))
        /\ r.AvgBenchmarkWeightYTD = MeanOverAllDates(BenchmarkDaily(r.Ticker))
        /\ r.AvgBaselineWeightYTD = MeanOverAllDates(BaselineDaily(r.Ticker))
        /\ DerivedColumns(r)

\* C15 (amended): in every ledger row the running average weight of each side
\* is the mean of the side's daily weights over those dates, from the first up
\* to the row's date, on which the daily weight is defined (the dates before
\* the ticker's first price are left out of the sum and of the divisor); the
\* derived columns are as claimed.
C15_RunningAverageOverDefinedDates ==
    \A r \in result :
        /\ r.TRADE_DATE = a_date
        /\ r.AvgPortfolioWeightYTD = MeanOverDefined(PortfolioDaily(r.Ticker))
        /\ r.AvgBenchmarkWeightYTD = MeanOverDefined(BenchmarkDaily(r.Ticker))
        /\ r.AvgBaselineWeightYTD = MeanOverDefined(BaselineDaily(r.Ticker))
        /\ DerivedColumns(r)

\* The ticker has no price, hence no weight, on the first date; its row of the
\* third date averages the weights 1/2 and 0 of the two later dates.
C15_Witness ==
    /\ a_date = 3
    /\ \E r \in result :
          /\ IsNaN(daily[1].portfolio_weights[r.Ticker])
          /\ daily[2].portfolio_weights[r.Ticker] = Frac(1, 2)
          /\ daily[3].portfolio_weights[r.Ticker] = Zero
          /\ r.AvgPortfolioWeightYTD = Frac(1, 4)
          /\ r.AvgBaselineWeightYTD = Zero
          /\ IsFinite(r.Attribution) /\ r.Attribution # Zero
          /\ IsFinite(r.AttributionVsOriginal) /\ r.AttributionVsOriginal # Zero

(***************************************************************************)
(* Classification of the identifiers by the Weight Table Normalizer.       *)
(***************************************************************************)
\* A 3-letter alphabetic identifier, in any letter case.
IsAlpha3(str) == Len(str) = 3 /\ \A i \in 1..3 : IsUpper(str[i]) \/ IsLower(str[i])

\* The sheet row carries a weight under some rebalance date.
HasValue(r) == \E c \in DOMAIN r.Weight : ~IsNaN(r.Weight[c])

\* The sheet rows left once the rows containing "total" are discarded.
KeptRows == {raw[i] : i \in {i \in 1..Len(raw) : ~IsTotal(raw[i].Ticker)}}

\* C16 (as claimed): of the rows not containing "total", every 3-letter
\* alphabetic identifier, whatever its letter case, is a ticker column under
\* its upper-cased name; the identifiers matching "cash" feed the single cash
\* column; no other identifier gives a column.
C16_ThreeLettersAnyCaseAreTickers ==
    n_status = "ok" =>
        /\ active_tickers =
              {UpperStr(r.Ticker) : r \in {r \in KeptRows : IsAlpha3(r.Ticker) /\ HasValue(r)}}
        /\ \A i \in 1..Len(n_weights) :
              DOMAIN n_weights[i].w = active_tickers \cup {CashCol}

(***************************************************************************)
(* Value kept across a rebalance event.                                    *)
(***************************************************************************)
\* The tickers with a positive target weight that an event cannot buy at the
\* prices p: no price column, or a zero or missing price on the row.
Abandoned(w, p) ==
    {t \in portfolio_cols :
        Less(Zero, w[t]) /\ (t \notin common_cols \/ ~ValidPrice(p[t]))}

\* C17: on a price row whose last rebalance event is not the first one, the
\* value recorded for the row is the pre-event value of that event,
\* sum(units x price) + cash, times 1 minus the target weights of the weighted
\* tickers that are unpriced or have no price column: the pre-event value
\* itself when there is none, and otherwise less, the abandoned allocation
\* not being kept as cash.
C17_SelfFinancing ==
    [][(pc = "loop" /\ row' = row + 1 /\ d_status = "running"
            /\ rebalance_idx' > rebalance_idx /\ rebalance_idx' >= 2) =>
          LET j == rebalance_idx'
              V == EventValue(j, px')
              w == weights[j].w
              lost == Abandoned(w, px')
          IN  /\ record'.PortfolioValue = Mul(V, Sub(R(1), SumAll(w, lost)))
              /\ lost = {} => record'.PortfolioValue = V
              /\ record'.CashBalance = Mul(V, w["CASH"])]_vars

\* The second event, on a later row than the first, finds a positive value
\* and cannot buy a weighted ticker that has a price column but a zero or
\* missing price: the recorded value is positive and less than 100.
C17_Witness ==
    /\ d_status = "running"
    /\ rebalance_idx = 2
    /\ applied[1][2] < applied[2][2]
    /\ record.date = applied[2][2]
    /\ \E t \in common_cols : t \in Abandoned(weights[2].w, px)
    /\ Less(Zero, record.PortfolioValue)
    /\ Less(record.PortfolioValue, R(100))
    /\ \E t \in common_cols : Less(Zero, units[t])

(***************************************************************************)
(* The common prefix of the dynamic and of the static run.                 *)
(***************************************************************************)
\* C18: for the same weights and prices, the first rebalance date being a
\* price row, both runs record the same date, PortfolioValue, CashBalance,
\* PortfolioIndex and realized weights on every row on which the second
\* snapshot has not been applied yet (on every row when it never is).
C18_CommonPrefix ==
    (weights # <<>> /\ weights[1].date \in price_dates /\ pc # "start") =>
        /\ s_status = d_status
        /\ (row >= 1 /\ Recording(d_status) /\ rebalance_idx <= 1) =>
              /\ s_record = record
              /\ s_first_value = first_value
              /\ s_weights_today = weights_today
              /\ s_units = units /\ s_cash_balance = cash_balance

\* Prices have moved and the second snapshot is still ahead: the two runs
\* agree on an index that has left 100.
C18_Witness ==
    /\ Len(weights) = 2
    /\ weights[1].date \in price_dates
    /\ d_status = "running" /\ s_status = "running"
    /\ row >= 2 /\ ~flat
    /\ rebalance_idx = 1
    /\ record.date < weights[2].date
    /\ s_record = record
    /\ s_weights_today = weights_today
    /\ IsFinite(record.PortfolioIndex) /\ record.PortfolioIndex # R(100)

====
